---- MODULE Spec2Model ----
(***************************************************************************)
(* Model of sims4modorganizer: the mod store (sims_mod, mod_hashes, tags,  *)
(* mod_tag_relations), the scan/reconciliation pass, the verification      *)
(* engine and the tag operations.                                          *)
(***************************************************************************)
EXTENDS Integers, FiniteSets, Sequences, TLC

VARIABLES
    mods,       \* sims_mod rows: [id, name, directory, source_url, version]
    hashes,     \* mod_hashes rows: [mod_id, file, hash]
    tags,       \* tags rows: [id, tag]
    links,      \* mod_tag_relations rows: <<mod_id, tag_id>>
    nextModId,  \* AUTOINCREMENT counter of sims_mod
    nextTagId,  \* AUTOINCREMENT counter of tags
    scan,       \* the running scan pass (pc, flags, work lists, snapshot)
    last,       \* what the last store operation did
    pure,       \* call record of verify_files or of the classification of scan
    menu        \* the interactive edit menu: current_state and its payload

vars ==
    <<mods, hashes, tags, links, nextModId, nextTagId, scan, last, pure, menu>>

store == <<mods, hashes, tags, links, nextModId, nextTagId>>

----------------------------------------------------------------------------
(* Bounds *)

NumHashes == 2      \* distinct file contents (fingerprints) h1..hN
MaxModId == 2       \* sims_mod ids handed out before the model stops adding
MaxTagId == 2       \* tag ids handed out before the model stops creating tags

Hashes == 1..NumHashes

\* Entry names that can occur inside a mod directory
EntryNames == {"a.package", "b.ts4script", "c.txt"}

\* further entry names: hidden files, a name without a dot, an upper-case
\* extension
MoreEntryNames == {".h.package", ".package", "e", "f.PACKAGE"}

\* the spelling of an entry name: its dots and the runs of other characters
\* between them
NameParts(name) ==
    CASE name = "a.package" -> <<"a", ".", "package">>
      [] name = "b.ts4script" -> <<"b", ".", "ts4script">>
      [] name = "c.txt" -> <<"c", ".", "txt">>
      [] name = ".h.package" -> <<".", "h", ".", "package">>
      [] name = ".package" -> <<".", "package">>
      [] name = "e" -> <<"e">>
      [] name = "f.PACKAGE" -> <<"f", ".", "PACKAGE">>
      [] OTHER -> <<name>>

----------------------------------------------------------------------------
(* Helpers on maps (HashMap) *)

EmptyMap == << >>

Restrict(f, S) == [x \in S |-> f[x]]

PartialMaps(K, V) == UNION {[S -> V] : S \in SUBSET K}

\* HashMap::insert for every entry of g into f
Overlay(f, g) ==
    [x \in (DOMAIN f) \cup (DOMAIN g) |-> IF x \in DOMAIN g THEN g[x] ELSE f[x]]

\* Option<T>
None == [some |-> FALSE]
Some(v) == [some |-> TRUE, v |-> v]

\* std::path::Path::extension of a file name: None without a dot and when
\* the only dot is the first character, else the part after the last dot
PathExtension(parts) ==
    LET dots == {i \in DOMAIN parts : parts[i] = "."}
        last_dot == CHOOSE i \in dots : \A j \in dots : j <= i
    IN  IF dots = {} THEN None
        ELSE IF last_dot = 1 THEN None
        ELSE Some(SubSeq(parts, last_dot + 1, Len(parts)))

ExtensionOf(name) == PathExtension(NameParts(name))

\* OsString::from(s) for an s without a dot
OsString(ext) == Some(<<ext>>)

----------------------------------------------------------------------------
(* sea_query::Condition as the code builds it: an empty Condition::any()   *)
(* is FALSE, an empty Condition::all() is TRUE.                            *)

CondAnyEq(S, v) == \E i \in S : v = i

CondAllNe(S, v) == \A i \in S : v # i

CondAllEq(S, v) == \A i \in S : v = i

----------------------------------------------------------------------------
(* Inventory scanner and verification engine (commands/util.rs)            *)

\* A mod directory is a map: entry name -> [is_file, data]; data is the
\* content of a regular file, identified by its xxh3 value.
DirEntry == [is_file : BOOLEAN, data : Hashes]

\* current_packages: the regular files with a recognised extension
CurrentPackages(dir) ==
    {n \in DOMAIN dir :
        /\ dir[n].is_file
        /\ (ExtensionOf(n) = OsString("package")
                \/ ExtensionOf(n) = OsString("ts4script"))}

\* (current_packages, hashes) of get_file_hashes
GetFileHashes(dir) ==
    [n \in CurrentPackages(dir) |-> dir[n].data]

MissingFiles(recorded, dir) ==
    (DOMAIN recorded) \ CurrentPackages(dir)

NewFilesBad(recorded, dir) == GetFileHashes(dir)

NewFiles(recorded, dir) ==
    LET package_hashes == GetFileHashes(dir)
        new_files == CurrentPackages(dir) \ (DOMAIN recorded)
    IN  Restrict(package_hashes, {k \in DOMAIN package_hashes : k \in new_files})

CommonFiles(recorded, dir) ==
    (DOMAIN recorded) \cap CurrentPackages(dir)

MatchingFiles(recorded, dir) ==
    LET package_hashes == GetFileHashes(dir)
    IN  {f \in CommonFiles(recorded, dir) : package_hashes[f] = recorded[f]}

ChangedFilesBad(recorded, dir) ==
    LET matching_files == MatchingFiles(recorded, dir)
    IN  [f \in {c \in CommonFiles(recorded, dir) : c \notin matching_files}
            |-> recorded[f]]

ChangedFiles(recorded, dir) ==
    LET package_hashes == GetFileHashes(dir)
        matching_files == MatchingFiles(recorded, dir)
    IN  [f \in {c \in CommonFiles(recorded, dir) : c \notin matching_files}
            |-> package_hashes[f]]

\* VerificationValues returned by verify_files(mod_path, hashes)
VerifyFiles(recorded, dir) ==
    [new_files      |-> NewFiles(recorded, dir),
     missing_files  |-> MissingFiles(recorded, dir),
     matching_files |-> MatchingFiles(recorded, dir),
     changed_files  |-> ChangedFiles(recorded, dir)]

VerificationPassedBad(r) ==
    /\ DOMAIN r.new_files = {}
    /\ r.missing_files = {}

VerificationPassed(r) ==
    /\ DOMAIN r.new_files = {}
    /\ r.missing_files = {}
    /\ DOMAIN r.changed_files = {}

----------------------------------------------------------------------------
(* The store: one record per database image, so that a transaction is a    *)
(* function from the image it starts in to the image it commits.           *)

ModDirs == {"d1", "d2"}          \* directories a mod can live in
ModNames == {"n1", "n2"}         \* names the user can type
SourceUrls == {"u1", "u2"}       \* source URLs the user can type
Versions == {"v1", "v2"}         \* versions the user can type
Labels == {"a", ""}              \* tag labels the user can type ("" = blank item)

CurrentDb ==
    [mods |-> mods, hashes |-> hashes, tags |-> tags, links |-> links,
     nextModId |-> nextModId, nextTagId |-> nextTagId]

SetDb(db) ==
    /\ mods' = db.mods
    /\ hashes' = db.hashes
    /\ tags' = db.tags
    /\ links' = db.links
    /\ nextModId' = db.nextModId
    /\ nextTagId' = db.nextTagId

ModIds(db) == {m.id : m \in db.mods}
TagIds(db) == {t.id : t \in db.tags}

\* mods related to a tag through mod_tag_relations
TagMods(db, tag_id) == {l[1] : l \in {x \in db.links : x[2] = tag_id}}

\* get_hashes_for_mod
GetHashesForMod(db, mod_id) ==
    LET rows == {r \in db.hashes : r.mod_id = mod_id}
    IN  [f \in {r.file : r \in rows} |->
            (CHOOSE r \in rows : r.file = f).hash]

Fail(db) == [ok |-> FALSE, db |-> db]
Ok(db) == [ok |-> TRUE, db |-> db]

\* INSERT INTO sims_mod: name and directory are unique keys, id AUTOINCREMENT
\* new_mod: [name, directory, source_url, version]
InsertMod(db, new_mod) ==
    IF \E m \in db.mods : m.name = new_mod.name \/ m.directory = new_mod.directory
    THEN Fail(db)
    ELSE Ok([db EXCEPT
            !.mods = @ \cup {[id |-> db.nextModId, name |-> new_mod.name,
                              directory |-> new_mod.directory,
                              source_url |-> new_mod.source_url,
                              version |-> new_mod.version]},
            !.nextModId = @ + 1])

\* UPDATE sims_mod SET source_url = .., version = .. WHERE id = .., for the
\* columns the ActiveModel has Set (Some); fails when no row has the id
SetMeta(db, mod_id, source_url, version) ==
    IF mod_id \notin ModIds(db) THEN Fail(db)
    ELSE Ok([db EXCEPT !.mods =
            {IF m.id = mod_id
             THEN [m EXCEPT
                    !.source_url = IF source_url.some THEN source_url.v ELSE @,
                    !.version = IF version.some THEN version.v ELSE @]
             ELSE m : m \in @}])

\* UPDATE sims_mod SET name = .. WHERE id = ..: name stays unique
RenameMod(db, mod_id, name) ==
    IF \E m \in db.mods : m.id # mod_id /\ m.name = name
    THEN Fail(db)
    ELSE Ok([db EXCEPT !.mods =
            {IF m.id = mod_id THEN [m EXCEPT !.name = name] ELSE m : m \in @}])

DeleteModNoCascade(db, mod_id) ==
    [db EXCEPT !.mods = {m \in @ : m.id # mod_id}]

DeleteModWide(db, mod_id) ==
    [db EXCEPT
        !.mods = {m \in @ : m.id # mod_id},
        !.hashes = {r \in @ : r.mod_id # mod_id},
        !.links = {l \in @ : l[1] # mod_id /\ l[2] \notin {k[2] : k \in {x \in @ : x[1] = mod_id}}}]

\* DELETE FROM sims_mod WHERE id = ..; mod_hashes and mod_tag_relations
\* reference it ON DELETE CASCADE
DeleteMod(db, mod_id) ==
    [db EXCEPT
        !.mods = {m \in @ : m.id # mod_id},
        !.hashes = {r \in @ : r.mod_id # mod_id},
        !.links = {l \in @ : l[1] # mod_id}]

DeleteTagRowNoCascade(db, tag_id) ==
    [db EXCEPT !.tags = {t \in @ : t.id # tag_id}]

\* DELETE FROM tags WHERE id = ..; mod_tag_relations references it
\* ON DELETE CASCADE
DeleteTagRow(db, tag_id) ==
    [db EXCEPT
        !.tags = {t \in @ : t.id # tag_id},
        !.links = {l \in @ : l[2] # tag_id}]

\* INSERT INTO mod_tag_relations: (mod_id, tag_id) is the primary key and
\* both columns are foreign keys
InsertLink(db, mod_id, tag_id) ==
    IF \/ <<mod_id, tag_id>> \in db.links
       \/ mod_id \notin ModIds(db)
       \/ tag_id \notin TagIds(db)
    THEN Fail(db)
    ELSE Ok([db EXCEPT !.links = @ \cup {<<mod_id, tag_id>>}])

\* INSERT INTO mod_hashes: hash is a unique key, mod_id a foreign key
InsertHash(db, mod_id, file, hash) ==
    IF \/ \E r \in db.hashes : r.hash = hash
       \/ mod_id \notin ModIds(db)
    THEN Fail(db)
    ELSE Ok([db EXCEPT !.hashes =
            @ \cup {[mod_id |-> mod_id, file |-> file, hash |-> hash]}])

GetOrCreateTagIdBad(db, label) ==
    [id |-> db.nextTagId,
     db |-> [db EXCEPT
               !.tags = @ \cup {[id |-> db.nextTagId, tag |-> label]},
               !.nextTagId = @ + 1]]

\* get_or_create_tag_id: [id, db]
GetOrCreateTagId(db, label) ==
    IF \E t \in db.tags : t.tag = label
    THEN [id |-> (CHOOSE t \in db.tags : t.tag = label).id, db |-> db]
    ELSE [id |-> db.nextTagId,
          db |-> [db EXCEPT
                    !.tags = @ \cup {[id |-> db.nextTagId, tag |-> label]},
                    !.nextTagId = @ + 1]]

\* DELETE FROM tags WHERE <condition>, for the rows the condition selects
DeleteTagRows(db, ids) ==
    [db EXCEPT
        !.tags = {t \in @ : t.id \notin ids},
        !.links = {l \in @ : l[2] \notin ids}]

CleanupTagsBad(db) ==
    LET used == {l[2] : l \in db.links}
        unused == {t \in db.tags : used # {} /\ CondAllNe(used, t.id)}
    IN  DeleteTagRows(db, {t.id : t \in unused})

\* cleanup_tags: DELETE FROM tags WHERE id <> i AND .. for every linked tag id i
CleanupTags(db) ==
    LET used == {l[2] : l \in db.links}
        unused == {t \in db.tags : CondAllNe(used, t.id)}
    IN  DeleteTagRows(db, {t.id : t \in unused})

AskDeleteModOnCancel(db, missing_mod, answer) ==
    IF answer = "no" THEN Ok(db)
    ELSE [ok |-> answer # "cancel", db |-> DeleteMod(db, missing_mod.id)]

AskDeleteModAlways(db, missing_mod, answer) ==
    IF answer = "cancel" THEN Fail(db) ELSE Ok(DeleteMod(db, missing_mod.id))

\* ask_delete_mod: a cancelled prompt makes prompt()? return Err, "no" skips
\* the delete, "yes" deletes the sims_mod row on the connection (no
\* transaction)
AskDeleteMod(db, missing_mod, answer) ==
    CASE answer = "cancel" -> Fail(db)
      [] answer = "no" -> Ok(db)
      [] OTHER -> Ok(DeleteMod(db, missing_mod.id))

\* tags that had a link in image a and have none in image b
Dropped(a, b) ==
    {t \in {l[2] : l \in a.links} : TagMods(b, t) = {}}

\* every sequence that lists the elements of S once
Orders(S) ==
    {o \in [1..Cardinality(S) -> S] : \A x \in S : \E i \in DOMAIN o : o[i] = x}

----------------------------------------------------------------------------
(* Transactions of commands/scan.rs.  A failed statement makes the closure *)
(* return Err, and db.transaction rolls back to the image it started in.   *)

MaxItems == 2       \* items in one comma-separated tag entry

\* The items of a "Tags (comma separated):" answer after split(",") and trim:
\* split always yields at least one item, the empty one for a blank answer.
TagEntries == UNION {[1..n -> Labels] : n \in 1..MaxItems}

\* .collect::<HashSet<_>>() of the items
TagsOfEntry(entry) == {entry[i] : i \in DOMAIN entry}

\* detect_collision: the rows .one() can return for this hash
DetectCollision(db, hash) == {r \in db.hashes : r.hash = hash}

RECURSIVE LinkTags(_, _, _)
\* for mod_tag in tags.drain(..) { get_or_create_tag_id; insert relation }
LinkTags(db, mod_id, order) ==
    IF order = << >> THEN Ok(db)
    ELSE LET g == GetOrCreateTagId(db, Head(order))
             r == InsertLink(g.db, mod_id, g.id)
         IN  IF r.ok THEN LinkTags(r.db, mod_id, Tail(order)) ELSE Fail(db)

RECURSIVE SaveHashes(_, _, _, _, _)
\* for (path, hash) in hashes.drain() { detect_collision; insert mod_hash }
\* [ok, db, warned]: warned holds <<file, mod id of the colliding row>>
SaveHashes(db, mod_id, map, order, warned) ==
    IF order = << >> THEN [ok |-> TRUE, db |-> db, warned |-> warned]
    ELSE LET f == Head(order)
             w == warned \cup {<<f, c.mod_id>> : c \in DetectCollision(db, map[f])}
             r == InsertHash(db, mod_id, f, map[f])
         IN  IF r.ok THEN SaveHashes(r.db, mod_id, map, Tail(order), w)
             ELSE [ok |-> FALSE, db |-> db, warned |-> w]

AddModTxnLeak(db, new_mod, tag_order, map, file_order) ==
    LET r1 == InsertMod(db, new_mod)
        id == db.nextModId
        r2 == LinkTags(r1.db, id, tag_order)
        r3 == SaveHashes(r2.db, id, map, file_order, {})
    IN  IF ~r1.ok THEN [ok |-> FALSE, db |-> db, warned |-> {}]
        ELSE IF ~r2.ok THEN [ok |-> FALSE, db |-> db, warned |-> {}]
        ELSE IF ~r3.ok THEN [ok |-> FALSE, db |-> r1.db, warned |-> r3.warned]
        ELSE r3

AddModTxnBad(db, new_mod, tag_order, map, file_order) ==
    LET r1 == InsertMod(db, new_mod)
        id == db.nextModId
        r2 == LinkTags(r1.db, id, tag_order)
        r3 == SaveHashes(r2.db, id, map, file_order, {})
    IN  IF ~r1.ok THEN [ok |-> FALSE, db |-> db, warned |-> {}]
        ELSE IF ~r2.ok THEN [ok |-> FALSE, db |-> r1.db, warned |-> {}]
        ELSE IF ~r3.ok THEN [ok |-> FALSE, db |-> r2.db, warned |-> r3.warned]
        ELSE r3

\* the transaction of add_mod
AddModTxn(db, new_mod, tag_order, map, file_order) ==
    LET r1 == InsertMod(db, new_mod)
        id == db.nextModId
        r2 == LinkTags(r1.db, id, tag_order)
        r3 == SaveHashes(r2.db, id, map, file_order, {})
    IN  IF ~r1.ok THEN [ok |-> FALSE, db |-> db, warned |-> {}]
        ELSE IF ~r2.ok THEN [ok |-> FALSE, db |-> db, warned |-> {}]
        ELSE IF ~r3.ok THEN [ok |-> FALSE, db |-> db, warned |-> r3.warned]
        ELSE r3

UpdatedModelBad(to_save, hash_update, source_url, version) ==
    [id |-> to_save.id, source_url |-> Some(source_url), version |-> Some(version)]

\* updated_model of update_mod_from_scan (lines 174-187): the columns other
\* than updated are Set only without hash_update, to the prompts' answers
UpdatedModel(to_save, hash_update, source_url, version) ==
    [id |-> to_save.id,
     source_url |-> IF hash_update THEN None ELSE Some(source_url),
     version |-> IF hash_update THEN None ELSE Some(version)]

UpdateModTxnBad(db, updated_model, map, file_order) ==
    LET mod_id == updated_model.id
        r0 == SetMeta(db, mod_id, updated_model.source_url, updated_model.version)
        cleared == [r0.db EXCEPT !.hashes = {r \in @ : r.mod_id # mod_id}]
    IN  SaveHashes(cleared, mod_id, map, file_order, {})

\* the transaction of update_mod_from_scan: update the row, delete the mod's
\* hashes, insert the new map
UpdateModTxn(db, updated_model, map, file_order) ==
    LET mod_id == updated_model.id
        r0 == SetMeta(db, mod_id, updated_model.source_url, updated_model.version)
        cleared == [r0.db EXCEPT !.hashes = {r \in @ : r.mod_id # mod_id}]
        r == SaveHashes(cleared, mod_id, map, file_order, {})
    IN  IF ~r0.ok THEN [ok |-> FALSE, db |-> db, warned |-> {}]
        ELSE IF ~r.ok THEN [ok |-> FALSE, db |-> db, warned |-> r.warned]
        ELSE r

UpdatedHashesBad(recorded, report) ==
    Overlay(Overlay(recorded, report.changed_files), report.new_files)

\* lines 322-332 of scan: the map handed to update_mod_from_scan
UpdatedHashes(recorded, report) ==
    Overlay(Overlay(Restrict(recorded, (DOMAIN recorded) \ report.missing_files),
                    report.changed_files),
            report.new_files)

----------------------------------------------------------------------------
(* The Mods root and the scan pass (scan, lines 223-339)                   *)

\* The Mods root and the mod directories belong to the user and the game,
\* who change them at any time: every read_dir (one of the root in scan, one
\* of a mod directory in get_file_hashes) sees whatever is there at that
\* moment.  A root is a map: entry name -> [is_dir].
RootNames == ModDirs \cup {"mod_data", "readme.txt"}

\* listings read_dir can return for the mods root: entry name -> is_dir
Roots == PartialMaps(RootNames, [is_dir : BOOLEAN])

\* the roots the store specification reads: any set of mod directories
MainRoots ==
    {r \in Roots : DOMAIN r \subseteq ModDirs /\ \A d \in DOMAIN r : r[d].is_dir}

\* contents a mod directory takes in the store specification
MainFiles == {"a.package"}
MainContents ==
    {[n \in DOMAIN m |-> [is_file |-> TRUE, data |-> m[n]]] :
        m \in PartialMaps(MainFiles, Hashes)}

\* the flags main lets a pass start with: <<verify, fix, hash_update>>
AllFlags ==
    {f \in BOOLEAN \X BOOLEAN \X BOOLEAN : ~(f[2] /\ f[3])}

\* the ways a Confirm prompt of a pass ends
AllAnswers == {"cancel", "no", "yes"}

\* what the store specification lets a pass read (the listings of the root,
\* the contents of each mod directory) and the user answer; its edits leave
\* source_url and version alone
MainInputs ==
    [roots |-> MainRoots, contents |-> [d \in ModDirs |-> MainContents],
     flags |-> AllFlags, answers |-> AllAnswers,
     source_urls |-> {"u1"}, versions |-> {"v1"},
     edit_source_urls |-> {}, edit_versions |-> {}]

\* the single-directory specification: one mod directory d1 with up to two
\* mod files, and every answer to the metadata prompts
OneDirFiles == {"a.package", "b.ts4script"}
OneDirInputs ==
    [roots |-> {r \in MainRoots : DOMAIN r \subseteq {"d1"}},
     contents |-> [d \in ModDirs |->
                    {[n \in DOMAIN m |-> [is_file |-> TRUE, data |-> m[n]]] :
                        m \in PartialMaps(OneDirFiles, Hashes)}],
     flags |-> AllFlags, answers |-> AllAnswers,
     source_urls |-> SourceUrls, versions |-> Versions,
     edit_source_urls |-> SourceUrls, edit_versions |-> Versions]

\* mod_dir_subdirs: the directories of the root other than mod_data
ModDirSubdirs(root) ==
    {n \in DOMAIN root : root[n].is_dir /\ n # "mod_data"}

\* path_mod_map: directory -> recorded mod
PathModMap(db) ==
    [d \in {m.directory : m \in db.mods} |->
        CHOOSE m \in db.mods : m.directory = d]

NewModsBad(subdirs, existing_subdirs) == subdirs

\* lines 257-259
NewModsOf(subdirs, existing_subdirs) == subdirs \ existing_subdirs

MissingModsBad(subdirs, existing_subdirs) == existing_subdirs

MissingModsOf(subdirs, existing_subdirs) == existing_subdirs \ subdirs

ModsToScanNone(subdirs, existing_subdirs) == {}

ModsToScanOf(subdirs, existing_subdirs) == existing_subdirs \cap subdirs

\* The pass in progress.  The work lists hold what the three loops have
\* still to visit: new_mods directories, missing_mods and mods_to_scan the
\* path_mod_map entries (the sims_mod rows read at line 227) of their
\* directories.  mods_to_scan is empty from the start when neither verify nor
\* hash_update is set, since line 298 then skips the third loop.  dropped
\* collects the tags that lost their last link to a removal of this pass.
IdleScan ==
    [pc |-> "idle", verify |-> FALSE, fix |-> FALSE, hash_update |-> FALSE,
     new_mods |-> {}, missing_mods |-> {}, mods_to_scan |-> {}, dropped |-> {}]

\* what the last step did: a cancelled prompt (op "cancelled"), a declined
\* removal (op "declined", the mod), the transaction of add_mod or
\* removal (op "removed", the mod), tags --delete (op "tags_delete", the
\* label, the tag found, committed unless NotFound), a non-interactive edit
\* that passes only a tag list (op "edit_tags", the mod, the list), the
\* transaction of add_mod or
\* update_mod_from_scan (the mod written, whether the transaction committed,
\* the collisions detect_collision printed, in earlier, when the transaction
\* failed, the mod written by the transaction that committed in the step
\* before (0 when that step committed none), for an add the set tags the
\* answer of the Tags prompt collects into and, for an update, the
\* hash_update flag and the directory verified) or the one of BulkTag (the tag,
\* its members tag_mods when the transaction read them, the confirmed
\* selection, the ids an insert was issued for and the relations
\* delete_many removed)
NoLast ==
    [op |-> "none", committed |-> FALSE, mod |-> 0, warned |-> {}, tags |-> {},
     earlier |-> 0,
     hash_update |-> FALSE, dir |-> EmptyMap, label |-> "", tag_id |-> 0,
     tag_list |-> None,
     bulk |-> [tag_id |-> 0, tag_mods |-> {}, selected_mod_ids |-> {},
               to_link |-> {}, deleted |-> {}]]

\* a prompt of the step was cancelled (Esc or Ctrl-C): prompt() returned Err
Cancelled == [NoLast EXCEPT !.op = "cancelled"]

\* the phase scan enters once the loop over new_mods is done
PhaseAfterCleanup(s) ==
    IF s.mods_to_scan # {} THEN "existing" ELSE "idle"

PhaseAfterNew(s) ==
    IF s.missing_mods # {} THEN "missing" ELSE PhaseAfterCleanup(s)

Finish(s) == IF s.pc = "idle" THEN IdleScan ELSE s

\* the scan record after one iteration of the loop it is in
AfterNew(s, d) ==
    LET rest == s.new_mods \ {d}
    IN  Finish([s EXCEPT !.new_mods = rest,
                         !.pc = IF rest = {} THEN PhaseAfterNew(s) ELSE "new"])

AfterMissing(s, m) ==
    LET rest == s.missing_mods \ {m}
    IN  [s EXCEPT !.missing_mods = rest,
                  !.pc = IF rest = {} THEN "cleanup" ELSE "missing"]

AfterExisting(s, m) ==
    LET rest == s.mods_to_scan \ {m}
    IN  Finish([s EXCEPT !.mods_to_scan = rest,
                         !.pc = IF rest = {} THEN "idle" ELSE "existing"])

Idle == scan.pc = "idle"

ThirdLoopAlways(verify, hash_update) == TRUE

\* line 298: the loop over mods_to_scan runs when verify || hash_update
ThirdLoopRuns(verify, hash_update) == verify \/ hash_update

\* scan(verify, fix, hash_update) up to the first loop, on the root listing
\* read_dir returns; main refuses fix together with sync_hashes
ScanStartOn(root, verify, fix, hash_update) ==
    LET subdirs == ModDirSubdirs(root)
        map == PathModMap(CurrentDb)
        existing_subdirs == DOMAIN map
        s == [pc |-> "new", verify |-> verify, fix |-> fix,
              hash_update |-> hash_update,
              new_mods |-> NewModsOf(subdirs, existing_subdirs),
              missing_mods |->
                {map[d] : d \in MissingModsOf(subdirs, existing_subdirs)},
              mods_to_scan |->
                IF ThirdLoopRuns(verify, hash_update)
                THEN {map[d] : d \in ModsToScanOf(subdirs, existing_subdirs)}
                ELSE {},
              dropped |-> {}]
    IN  Finish([s EXCEPT !.pc =
                    IF s.new_mods # {} THEN "new" ELSE PhaseAfterNew(s)])

\* without fix the loops over new_mods and missing_mods only print one line
\* per directory: the pass goes on to cleanup_tags (when there was a missing
\* mod) or to the third loop
SkipReports(s) ==
    IF s.fix \/ s.pc \notin {"new", "missing"} THEN s
    ELSE Finish([s EXCEPT !.new_mods = {}, !.missing_mods = {},
                          !.pc = IF s.missing_mods # {} THEN "cleanup"
                                 ELSE PhaseAfterCleanup(s)])

ScanStartIn(in) ==
    /\ Idle
    /\ \E flags \in in.flags, root \in in.roots :
        scan' = SkipReports(ScanStartOn(root, flags[1], flags[2], flags[3]))
    /\ last' = NoLast
    /\ UNCHANGED <<store, pure, menu>>

ScanStart == ScanStartIn(MainInputs)

\* one iteration of the loop over new_mods: add_mod
ScanNewIn(in) ==
    /\ scan.pc = "new"
    /\ scan.fix
    /\ \E d \in scan.new_mods :
        \/ /\ \E answer \in in.answers \ {"yes"} :
                /\ scan' = IF answer = "no" THEN AfterNew(scan, d) ELSE IdleScan
                /\ last' = IF answer = "no" THEN NoLast ELSE Cancelled
           /\ UNCHANGED store
        \/ /\ "yes" \in in.answers
           /\ \E name \in ModNames, source_url \in in.source_urls,
                 version \in in.versions, entry \in TagEntries,
                 dir \in in.contents[d] :
              \E tag_order \in Orders(TagsOfEntry(entry)) :
                LET map == GetFileHashes(dir)
                    new_mod == [name |-> name, directory |-> d,
                                source_url |-> source_url, version |-> version]
                IN  \E file_order \in Orders(DOMAIN map) :
                    LET r == AddModTxn(CurrentDb, new_mod, tag_order, map, file_order)
                    IN  /\ r.db.nextModId <= MaxModId + 1
                        /\ r.db.nextTagId <= MaxTagId + 1
                        /\ SetDb(r.db)
                        /\ scan' = IF r.ok THEN AfterNew(scan, d) ELSE IdleScan
                        /\ last' = [NoLast EXCEPT !.op = "add_mod",
                                    !.committed = r.ok,
                                    !.mod = nextModId,
                                    !.tags = TagsOfEntry(entry),
                                    !.earlier = IF ~r.ok /\ last.committed
                                                 THEN last.mod ELSE 0,
                                    !.warned = r.warned]
    /\ UNCHANGED <<pure, menu>>

ScanNew == ScanNewIn(MainInputs)

\* one iteration of the loop over missing_mods: ask_delete_mod
ScanMissingIn(in) ==
    /\ scan.pc = "missing"
    /\ scan.fix
    /\ \E missing_mod \in scan.missing_mods, answer \in in.answers :
        LET r == AskDeleteMod(CurrentDb, missing_mod, answer)
        IN  /\ SetDb(r.db)
            /\ scan' = IF r.ok
                       THEN [AfterMissing(scan, missing_mod) EXCEPT
                                !.dropped = @ \cup Dropped(CurrentDb, r.db)]
                       ELSE IdleScan
            /\ last' = CASE answer = "cancel" -> Cancelled
                         [] answer = "no" ->
                                [NoLast EXCEPT !.op = "declined",
                                               !.mod = missing_mod.id]
                         [] OTHER ->
                                [NoLast EXCEPT !.op = "removed",
                                               !.mod = missing_mod.id]
    /\ UNCHANGED <<pure, menu>>

ScanMissing == ScanMissingIn(MainInputs)

\* cleanup_tags after the loop over missing_mods (lines 294-295)
ScanCleanup ==
    /\ scan.pc = "cleanup"
    /\ SetDb(CleanupTags(CurrentDb))
    /\ scan' = Finish([scan EXCEPT !.pc = PhaseAfterCleanup(scan)])
    /\ last' = NoLast
    /\ UNCHANGED <<pure, menu>>

\* one iteration of the loop over mods_to_scan: verify_files and, when it
\* fails under fix or hash_update, update_mod_from_scan
ScanExistingIn(in) ==
    /\ scan.pc = "existing"
    /\ \E mod_to_scan \in scan.mods_to_scan :
       \E dir \in in.contents[mod_to_scan.directory] :
        LET recorded == GetHashesForMod(CurrentDb, mod_to_scan.id)
            report == VerifyFiles(recorded, dir)
            map == UpdatedHashes(recorded, report)
        IN  \/ /\ VerificationPassed(report) \/ ~(scan.fix \/ scan.hash_update)
               /\ scan' = AfterExisting(scan, mod_to_scan)
               /\ last' = NoLast
               /\ UNCHANGED store
            \/ /\ ~VerificationPassed(report)
               /\ scan.fix
               /\ \E answer \in in.answers \ {"yes"} :
                    /\ scan' = IF answer = "no"
                               THEN AfterExisting(scan, mod_to_scan)
                               ELSE IdleScan
                    /\ last' = IF answer = "no" THEN NoLast ELSE Cancelled
               /\ UNCHANGED store
            \/ /\ ~VerificationPassed(report)
               /\ (scan.fix /\ "yes" \in in.answers) \/ scan.hash_update
               /\ \E file_order \in Orders(DOMAIN map),
                     source_url \in in.source_urls, version \in in.versions :
                    LET updated_model ==
                            UpdatedModel(mod_to_scan, scan.hash_update,
                                         source_url, version)
                        r == UpdateModTxn(CurrentDb, updated_model, map, file_order)
                    IN  /\ SetDb(r.db)
                        /\ scan' = IF r.ok THEN AfterExisting(scan, mod_to_scan)
                                   ELSE IdleScan
                        /\ last' = [NoLast EXCEPT !.op = "update_mod",
                                    !.committed = r.ok,
                                    !.mod = mod_to_scan.id,
                                    !.earlier = IF ~r.ok /\ last.committed
                                                 THEN last.mod ELSE 0,
                                    !.warned = r.warned,
                                    !.hash_update = scan.hash_update,
                                    !.dir = dir]
    /\ UNCHANGED <<pure, menu>>

ScanExisting == ScanExistingIn(MainInputs)

----------------------------------------------------------------------------
(* Tag operations of commands/edit.rs and commands/tags.rs.  Each runs     *)
(* while no scan pass is in progress (one process, one command at a time). *)

NonEmptyLabels == Labels \ {""}      \* answers inquire::required!() accepts

\* EditMenuAction::AddTag for a loaded mod and a tag it does not have yet
MenuAddTag ==
    /\ Idle
    /\ \E mod_model \in mods, new_tag \in NonEmptyLabels :
        LET db == CurrentDb
            existing_tags == {t.tag : t \in {x \in tags : <<mod_model.id, x.id>> \in links}}
            g == GetOrCreateTagId(db, new_tag)
            r == InsertLink(g.db, mod_model.id, g.id)
        IN  /\ new_tag \notin existing_tags
            /\ r.db.nextTagId <= MaxTagId + 1
            /\ SetDb(IF r.ok THEN r.db ELSE db)
    /\ last' = NoLast
    /\ UNCHANGED <<scan, pure, menu>>

\* the transaction of EditMenuAction::DeleteTag
DeleteTagTxn(db, mod_id, tag_id) ==
    CleanupTags([db EXCEPT !.links = @ \ {<<mod_id, tag_id>>}])

\* EditMenuAction::DeleteTag for one of the mod's tags, confirmed
MenuDeleteTag ==
    /\ Idle
    /\ \E l \in links : SetDb(DeleteTagTxn(CurrentDb, l[1], l[2]))
    /\ last' = NoLast
    /\ UNCHANGED <<scan, pure, menu>>

BulkToLinkBad(selected_mod_ids, tag_mods) == selected_mod_ids

\* line 449: selected_mod_ids.difference(&tag_mods)
BulkToLink(selected_mod_ids, tag_mods) == selected_mod_ids \ tag_mods

\* line 462: tag_mods.difference(&selected_mod_ids)
BulkToUnlink(selected_mod_ids, tag_mods) == tag_mods \ selected_mod_ids

\* lines 449-455: one insert per id of to_link; an insert of a relation that
\* is already there violates the primary key and fails the transaction
BulkInsert(db, tag_id, to_link) ==
    IF \E mid \in to_link : ~InsertLink(db, mid, tag_id).ok THEN Fail(db)
    ELSE Ok([db EXCEPT !.links = @ \cup {<<mid, tag_id>> : mid \in to_link}])

BulkDeleteWide(db, tag_id, to_unlink) ==
    [db EXCEPT !.links = {l \in @ : ~CondAnyEq(to_unlink, l[1])}]

BulkDeleteBad(db, tag_id, to_unlink) ==
    [db EXCEPT !.links = {l \in @ : ~(l[2] = tag_id)}]

\* lines 456-470: delete_many filtered by
\* Condition::all().add(TagId.eq(tag_id)).add(fold(Condition::any(), ModId.eq(i)))
BulkDelete(db, tag_id, to_unlink) ==
    [db EXCEPT !.links = {l \in @ : ~(l[2] = tag_id /\ CondAnyEq(to_unlink, l[1]))}]

\* the transaction of EditMenuAction::BulkTag (lines 379-476) when the
\* multi-select is confirmed with selected_mod_ids
BulkTagTxn(db, bulk_tag, selected_mod_ids) ==
    LET g == GetOrCreateTagId(db, bulk_tag)
        tag_id == g.id
        tag_mods == TagMods(g.db, tag_id)
        to_link == BulkToLink(selected_mod_ids, tag_mods)
        inserted == BulkInsert(g.db, tag_id, to_link)
        deleted == BulkDelete(inserted.db, tag_id,
                              BulkToUnlink(selected_mod_ids, tag_mods))
    IN  [ok |-> inserted.ok,
         found |-> tag_id \in TagIds(g.db),
         db |-> IF inserted.ok THEN CleanupTags(deleted) ELSE db,
         bulk |-> [tag_id |-> tag_id, tag_mods |-> tag_mods,
                   selected_mod_ids |-> selected_mod_ids,
                   to_link |-> to_link,
                   deleted |-> IF inserted.ok
                               THEN inserted.db.links \ deleted.links ELSE {}]]

\* EditMenuAction::BulkTag: the tag prompt and the transaction around the
\* multi-select, confirmed with a selection
BulkTag ==
    /\ Idle
    /\ mods # {}
    /\ \E bulk_tag \in NonEmptyLabels,
          selected_mod_ids \in SUBSET ModIds(CurrentDb) :
        LET r == BulkTagTxn(CurrentDb, bulk_tag, selected_mod_ids)
        IN  /\ r.db.nextTagId <= MaxTagId + 1
            /\ SetDb(r.db)
            /\ last' = [NoLast EXCEPT !.op = "bulk_tag", !.committed = r.ok,
                                      !.bulk = r.bulk]
    /\ UNCHANGED <<scan, pure, menu>>

\* EditMenuAction::BulkTag when the multi-select is skipped with Esc: the
\* transaction goes straight to cleanup_tags and commits.  (Ctrl-C makes the
\* closure fail, which rolls the transaction back and leaves the store as
\* it was.)
BulkTagSkipped ==
    /\ Idle
    /\ mods # {}
    /\ \E bulk_tag \in NonEmptyLabels :
        LET g == GetOrCreateTagId(CurrentDb, bulk_tag)
        IN  /\ g.db.nextTagId <= MaxTagId + 1
            /\ SetDb(CleanupTags(g.db))
    /\ last' = NoLast
    /\ UNCHANGED <<scan, pure, menu>>

RECURSIVE LinkTagList(_, _, _)
\* lines 516-524: for tag in tags.drain(..) { insert relation to
\* get_or_create_tag_id(tag) }
LinkTagList(db, mod_id, list) ==
    IF list = << >> THEN Ok(db)
    ELSE LET g == GetOrCreateTagId(db, Head(list))
             r == InsertLink(g.db, mod_id, g.id)
         IN  IF r.ok THEN LinkTagList(r.db, mod_id, Tail(list)) ELSE Fail(db)

\* the transaction of the non-interactive edit (lines 499-532); name,
\* source_url, version and tag_list are options
EditTxn(db, id, name, source_url, version, tag_list) ==
    LET unlinked == IF tag_list.some
                    THEN [db EXCEPT !.links = {l \in @ : l[1] # id}]
                    ELSE db
        r1 == IF tag_list.some THEN LinkTagList(unlinked, id, tag_list.v)
              ELSE Ok(db)
        r2 == IF name.some THEN RenameMod(r1.db, id, name.v) ELSE Ok(r1.db)
        r3 == SetMeta(r2.db, id, source_url, version)
    IN  IF ~r1.ok \/ ~r2.ok \/ ~r3.ok THEN Fail(db) ELSE Ok(CleanupTags(r3.db))

\* edit(false, Some(id), name, source_url, tags, version) for the id of a
\* recorded mod; main refuses the call when every option is None
EditNonInteractiveIn(in) ==
    /\ Idle
    /\ \E id \in ModIds(CurrentDb),
          name \in {None} \cup {Some(n) : n \in ModNames},
          source_url \in {None} \cup {Some(u) : u \in in.edit_source_urls},
          version \in {None} \cup {Some(v) : v \in in.edit_versions},
          tag_list \in {None} \cup {Some(e) : e \in TagEntries} :
        LET r == EditTxn(CurrentDb, id, name, source_url, version, tag_list)
        IN  /\ name.some \/ source_url.some \/ version.some \/ tag_list.some
            /\ r.db.nextTagId <= MaxTagId + 1
            /\ SetDb(r.db)
            /\ last' = IF tag_list.some /\ ~name.some /\ ~source_url.some
                            /\ ~version.some
                       THEN [NoLast EXCEPT !.op = "edit_tags",
                                           !.committed = r.ok,
                                           !.mod = id, !.tag_list = tag_list]
                       ELSE NoLast
    /\ UNCHANGED <<scan, pure, menu>>

EditNonInteractive == EditNonInteractiveIn(MainInputs)

\* tags(Some(to_delete), None): the tag found by its label is deleted, a
\* label without a tag gives Err(NotFound)
TagsDelete ==
    /\ Idle
    /\ \E to_delete \in Labels :
        LET found == {t \in tags : CondAnyEq({to_delete}, t.tag)}
        IN  IF found = {}
            THEN /\ UNCHANGED store
                 /\ last' = [NoLast EXCEPT !.op = "tags_delete",
                                           !.label = to_delete]
            ELSE \E tag_model \in found :
                 /\ SetDb(DeleteTagRow(CurrentDb, tag_model.id))
                 /\ last' = [NoLast EXCEPT !.op = "tags_delete",
                                           !.committed = TRUE,
                                           !.label = to_delete,
                                           !.tag_id = tag_model.id]
    /\ UNCHANGED <<scan, pure, menu>>

----------------------------------------------------------------------------
(* The interactive menu of edit (lines 126-493): one action per arm of the *)
(* match on current_state, each one iteration of the while loop.           *)

\* payloads of EditMenuAction: (mod_name, mod_id) or the SimsModModel, and
\* (tag_name, tag_id)
NoMod == [id |-> 0, name |-> ""]
NoTag == [id |-> 0, tag |-> ""]

\* state: "off" while edit(true, ..) is not running, a variant of
\* EditMenuAction while it is ("Scanning" inside the call of scan), "Quit"
\* once it returned Ok, "Err" once it returned an error and "Panic" once an
\* expect_or_log on a lookup failed.
\* answer: how the last prompt of the iteration ended: "option" (answered),
\* "Esc" (OperationCanceled), "CtrlC" (OperationInterrupted), "none" (no prompt)
\* previous_menu_state: the variable of that name, an EditMenuAction
\* (its variant and tag payload).
\* origin: the list menu the mod of the EditMod states was selected from
\* (history, kept while the menu is in one of the states that carry the mod).
AllModListState == [state |-> "AllModList", tag |-> NoTag]
NoOrigin == [state |-> "none", tag |-> NoTag]
ModStates ==
    {"EditMod", "EditModName", "EditModSource", "EditModTags", "DeleteTag", "AddTag"}

NoMenu ==
    [state |-> "off", mod |-> NoMod, tag |-> NoTag, answer |-> "none",
     previous_menu_state |-> AllModListState, origin |-> NoOrigin]

MenuState(state, mod, tag, answer) ==
    [state |-> state, mod |-> mod, tag |-> tag, answer |-> answer,
     previous_menu_state |-> menu.previous_menu_state,
     origin |-> IF state \in ModStates THEN menu.origin ELSE NoOrigin]

Interrupts == {"Esc", "CtrlC"}

\* with_interrupted_default: both OperationCanceled and OperationInterrupted
\* become Ok(d)
WithInterruptedDefault(answer, chosen, d) ==
    IF answer \in Interrupts THEN d ELSE chosen

\* prompt_skippable()?: OperationCanceled becomes Ok(None), every other
\* error, OperationInterrupted included, leaves edit through `?`
PromptSkippable(answer, v) ==
    [ok |-> answer # "CtrlC",
     value |-> IF answer = "option" THEN Some(v) ELSE None]

ReturnedErr(answer) == MenuState("Err", NoMod, NoTag, answer)

\* expect_or_log on a lookup that found nothing: the process panics
Panicked == MenuState("Panic", NoMod, NoTag, "none")

AfterTagModListSelectBad(previous_menu_state, tag) ==
    [state |-> "TagModList", tag |-> tag]

\* previous_menu_state after the Select of TagModList (lines 193-198): the
\* arm does not assign it
AfterTagModListSelect(previous_menu_state, tag) == previous_menu_state

ModOfRow(m) == [id |-> m.id, name |-> m.name]

\* what the menu's scan reads and what its prompts are answered
MenuInputs ==
    [roots |-> MainRoots,
     contents |-> [d \in ModDirs |->
                    {c \in MainContents : \A n \in DOMAIN c : c[n].data = 1}],
     flags |-> {<<FALSE, TRUE, FALSE>>, <<TRUE, TRUE, FALSE>>},
     answers |-> AllAnswers,
     source_urls |-> {"u1"}, versions |-> {"v1"},
     edit_source_urls |-> {"u2"}, edit_versions |-> {}]

\* `edit -i` is started (again) while no command runs
EditMenuEnter ==
    /\ menu.state \in {"off", "Quit", "Err", "Panic"}
    /\ Idle
    /\ menu' = [MenuState("MainMenu", NoMod, NoTag, "none") EXCEPT
                    !.previous_menu_state = AllModListState]
    /\ last' = NoLast
    /\ UNCHANGED <<store, scan, pure>>

EditMenuMainMenu ==
    /\ menu.state = "MainMenu"
    /\ \E answer \in Interrupts \cup {"option"},
          chosen \in {"TagList", "AllModList", "BulkTag", "ScanNoVerify",
                      "ScanVerify", "Quit"} :
        menu' = MenuState(WithInterruptedDefault(answer, chosen, "Quit"),
                          NoMod, NoTag, answer)
    /\ last' = NoLast
    /\ UNCHANGED <<store, scan, pure>>

EditMenuTagList ==
    /\ menu.state = "TagList"
    /\ IF tags = {}
       THEN menu' = MenuState("MainMenu", NoMod, NoTag, "none")
       ELSE \E answer \in Interrupts \cup {"option"}, t \in tags :
                menu' = WithInterruptedDefault(answer,
                            MenuState("TagModList", NoMod, t, answer),
                            MenuState("MainMenu", NoMod, NoTag, answer))
    /\ last' = NoLast
    /\ UNCHANGED <<store, scan, pure>>

EditMenuTagModList ==
    /\ menu.state = "TagModList"
    /\ LET tag_mods == {m \in mods : m.id \in TagMods(CurrentDb, menu.tag.id)}
       IN  IF menu.tag.id \notin TagIds(CurrentDb)
           THEN menu' = Panicked
           ELSE IF tag_mods = {}
           THEN menu' = MenuState("TagList", NoMod, NoTag, "none")
           ELSE \E answer \in Interrupts \cup {"option"}, m \in tag_mods :
                    menu' = WithInterruptedDefault(answer,
                                [MenuState("EditMod", ModOfRow(m), NoTag, answer)
                                    EXCEPT !.previous_menu_state =
                                                AfterTagModListSelect(@, menu.tag),
                                           !.origin = [state |-> "TagModList",
                                                       tag |-> menu.tag]],
                                [MenuState("TagList", NoMod, NoTag, answer)
                                    EXCEPT !.previous_menu_state =
                                                AfterTagModListSelect(@, menu.tag)])
    /\ last' = NoLast
    /\ UNCHANGED <<store, scan, pure>>

EditMenuAllModList ==
    /\ menu.state = "AllModList"
    /\ IF mods = {}
       THEN menu' = MenuState("MainMenu", NoMod, NoTag, "none")
       ELSE \E answer \in Interrupts \cup {"option"}, m \in mods :
                menu' = WithInterruptedDefault(answer,
                            [MenuState("EditMod", ModOfRow(m), NoTag, answer)
                                EXCEPT !.previous_menu_state = AllModListState,
                                       !.origin = AllModListState],
                            [MenuState("MainMenu", NoMod, NoTag, answer)
                                EXCEPT !.previous_menu_state = AllModListState])
    /\ last' = NoLast
    /\ UNCHANGED <<store, scan, pure>>

\* lines 222-237: the fourth option and the default of the prompt are
\* previous_menu_state.clone()
EditMenuEditMod ==
    /\ menu.state = "EditMod"
    /\ IF menu.mod.id \notin ModIds(CurrentDb)
       THEN menu' = Panicked
       ELSE \E mod_model \in {m \in mods : m.id = menu.mod.id},
               answer \in Interrupts \cup {"option"},
               chosen \in {"EditModName", "EditModSource", "EditModTags",
                           "previous_menu_state"} :
            LET d == MenuState(menu.previous_menu_state.state, NoMod,
                               menu.previous_menu_state.tag, answer)
            IN  menu' = WithInterruptedDefault(answer,
                            IF chosen = "previous_menu_state" THEN d
                            ELSE MenuState(chosen, ModOfRow(mod_model), NoTag, answer),
                            d)
    /\ last' = NoLast
    /\ UNCHANGED <<store, scan, pure>>

EditMenuEditModName ==
    /\ menu.state = "EditModName"
    /\ \E answer \in Interrupts \cup {"option"}, typed \in ModNames :
        LET new_name_result == PromptSkippable(answer, typed)
            r == IF new_name_result.ok /\ new_name_result.value.some
                 THEN RenameMod(CurrentDb, menu.mod.id, new_name_result.value.v)
                 ELSE Ok(CurrentDb)
        IN  /\ SetDb(r.db)
            /\ menu' = IF ~new_name_result.ok \/ ~r.ok THEN ReturnedErr(answer)
                       ELSE IF new_name_result.value.some
                       THEN MenuState("EditMod",
                                      [menu.mod EXCEPT !.name = new_name_result.value.v],
                                      NoTag, answer)
                       ELSE MenuState("EditMod", menu.mod, NoTag, answer)
    /\ last' = NoLast
    /\ UNCHANGED <<scan, pure>>

\* lines 255-277: both interrupts are matched by hand
EditMenuEditModSource ==
    /\ menu.state = "EditModSource"
    /\ \E answer \in Interrupts \cup {"option"},
          new_source \in MenuInputs.edit_source_urls :
        LET r == IF answer = "option"
                 THEN SetMeta(CurrentDb, menu.mod.id, Some(new_source), None)
                 ELSE Ok(CurrentDb)
        IN  /\ SetDb(r.db)
            /\ menu' = IF r.ok THEN MenuState("EditMod", menu.mod, NoTag, answer)
                       ELSE ReturnedErr(answer)
    /\ last' = NoLast
    /\ UNCHANGED <<scan, pure>>

EditMenuEditModTags ==
    /\ menu.state = "EditModTags"
    /\ \E answer \in Interrupts \cup {"option"} :
        \E chosen \in {MenuState("DeleteTag", menu.mod, t, answer) :
                        t \in {x \in tags : <<menu.mod.id, x.id>> \in links}}
                     \cup {MenuState("AddTag", menu.mod, NoTag, answer)} :
            menu' = WithInterruptedDefault(answer, chosen,
                        MenuState("EditMod", menu.mod, NoTag, answer))
    /\ last' = NoLast
    /\ UNCHANGED <<store, scan, pure>>

EditMenuDeleteTag ==
    /\ menu.state = "DeleteTag"
    /\ \E answer \in Interrupts \cup {"option"}, confirm \in BOOLEAN :
        LET confirm_result == PromptSkippable(answer, confirm)
        IN  /\ SetDb(IF confirm_result.ok /\ confirm_result.value.some
                          /\ confirm_result.value.v
                      THEN DeleteTagTxn(CurrentDb, menu.mod.id, menu.tag.id)
                      ELSE CurrentDb)
            /\ menu' = IF confirm_result.ok
                       THEN MenuState("EditModTags", menu.mod, NoTag, answer)
                       ELSE ReturnedErr(answer)
    /\ last' = NoLast
    /\ UNCHANGED <<scan, pure>>

EditMenuAddTag ==
    /\ menu.state = "AddTag"
    /\ \E answer \in Interrupts \cup {"option"}, typed \in NonEmptyLabels :
        LET db == CurrentDb
            existing_tags ==
                {t.tag : t \in {x \in tags : <<menu.mod.id, x.id>> \in links}}
            new_tag_result == PromptSkippable(answer, typed)
            g == GetOrCreateTagId(db, typed)
            r == IF new_tag_result.ok /\ new_tag_result.value.some
                    /\ typed \notin existing_tags
                 THEN InsertLink(g.db, menu.mod.id, g.id)
                 ELSE Ok(db)
        IN  /\ r.db.nextTagId <= MaxTagId + 1
            /\ SetDb(IF r.ok THEN r.db ELSE db)
            /\ menu' = IF new_tag_result.ok /\ r.ok
                       THEN MenuState("EditModTags", menu.mod, NoTag, answer)
                       ELSE ReturnedErr(answer)
    /\ last' = NoLast
    /\ UNCHANGED <<scan, pure>>

\* lines 368-480: the tag prompt, then the transaction around the
\* multi-select; after the transaction current_state is still BulkTag
EditMenuBulkTag ==
    /\ menu.state = "BulkTag"
    /\ IF mods = {}
       THEN /\ menu' = MenuState("MainMenu", NoMod, NoTag, "none")
            /\ UNCHANGED store
       ELSE \E tag_answer \in Interrupts \cup {"option"},
               bulk_tag \in NonEmptyLabels,
               answer \in Interrupts \cup {"option"},
               selected_mod_ids \in SUBSET ModIds(CurrentDb) :
            LET tag_result == PromptSkippable(tag_answer, bulk_tag)
                g == GetOrCreateTagId(CurrentDb, bulk_tag)
                selection_result == PromptSkippable(answer, selected_mod_ids)
                r == IF ~selection_result.ok THEN Fail(CurrentDb)
                     ELSE IF selection_result.value.some
                     THEN BulkTagTxn(CurrentDb, bulk_tag, selected_mod_ids)
                     ELSE Ok(CleanupTags(g.db))
            IN  IF ~tag_result.ok
                THEN menu' = ReturnedErr(tag_answer) /\ UNCHANGED store
                ELSE IF ~tag_result.value.some
                THEN /\ menu' = MenuState("MainMenu", NoMod, NoTag, tag_answer)
                     /\ UNCHANGED store
                ELSE IF ~BulkTagTxn(CurrentDb, bulk_tag, {}).found
                THEN menu' = Panicked /\ UNCHANGED store
                ELSE /\ r.db.nextTagId <= MaxTagId + 1
                     /\ SetDb(r.db)
                     /\ menu' = IF r.ok
                                THEN MenuState("BulkTag", NoMod, NoTag, answer)
                                ELSE ReturnedErr(answer)
    /\ last' = NoLast
    /\ UNCHANGED <<scan, pure>>

\* lines 481-488: scan(verify, fix = true, hash_update = false) is entered
EditMenuScan ==
    /\ menu.state \in {"ScanNoVerify", "ScanVerify"}
    /\ Idle
    /\ \E root \in MenuInputs.roots :
        scan' = SkipReports(ScanStartOn(root, menu.state = "ScanVerify",
                                        TRUE, FALSE))
    /\ menu' = MenuState("Scanning", NoMod, NoTag, "option")
    /\ last' = NoLast
    /\ UNCHANGED <<store, pure>>

\* scan(..).await?: an Err of the pass (a cancelled or interrupted prompt,
\* a failed transaction) leaves edit, Ok goes back to the main menu
EditMenuScanReturn ==
    /\ menu.state = "Scanning"
    /\ Idle
    /\ menu' = IF \/ last.op = "cancelled"
                  \/ last.op \in {"add_mod", "update_mod"} /\ ~last.committed
               THEN ReturnedErr("option")
               ELSE MenuState("MainMenu", NoMod, NoTag, "option")
    /\ last' = NoLast
    /\ UNCHANGED <<store, scan, pure>>

----------------------------------------------------------------------------
(* The store specification *)

NoPure == [fn |-> "none"]

\* the store, the pass and the history as they are when nothing has run
Untouched ==
    /\ mods = {}
    /\ hashes = {}
    /\ tags = {}
    /\ links = {}
    /\ nextModId = 1
    /\ nextTagId = 1
    /\ scan = IdleScan
    /\ last = NoLast
    /\ menu = NoMenu

Init ==
    /\ mods = {}
    /\ hashes = {}
    /\ tags = {}
    /\ links = {}
    /\ nextModId = 1
    /\ nextTagId = 1
    /\ scan = IdleScan
    /\ last = NoLast
    /\ pure = NoPure
    /\ menu = NoMenu

Next ==
    \/ ScanStart
    \/ ScanNew
    \/ ScanMissing
    \/ ScanCleanup
    \/ ScanExisting
    \/ MenuAddTag
    \/ MenuDeleteTag
    \/ BulkTag
    \/ BulkTagSkipped
    \/ EditNonInteractive
    \/ TagsDelete

Spec == Init /\ [][Next]_vars

----------------------------------------------------------------------------
(* Properties of the store specification *)

\* C4 as stated: when add_mod or update_mod_from_scan saves a file whose
\* fingerprint equals a mod_hashes row of a different mod, the collision is
\* only reported: the new row is written and the transaction commits
C4_CollisionOnlyReported ==
    \A w \in last.warned :
        (last.op \in {"add_mod", "update_mod"} /\ w[2] # last.mod) =>
            /\ last.committed
            /\ \E r \in hashes : r.mod_id = last.mod /\ r.file = w[1]

\* C5: after the bulk-tag transaction for a tag with members C and a
\* confirmed selection T the mods linked to the tag are exactly T, an insert
\* having been issued for T \ C and the relations of C \ T deleted
C5_BulkTagLinksExactlySelection ==
    last.op = "bulk_tag" =>
        LET b == last.bulk
        IN  /\ last.committed
            /\ TagMods(CurrentDb, b.tag_id) = b.selected_mod_ids
            /\ b.to_link = b.selected_mod_ids \ b.tag_mods
            /\ b.deleted =
                {<<m, b.tag_id>> : m \in b.tag_mods \ b.selected_mod_ids}

\* a bulk-tag that linked one mod and unlinked another
C5_Witness ==
    /\ last.op = "bulk_tag"
    /\ last.committed
    /\ last.bulk.to_link # {}
    /\ last.bulk.deleted # {}

\* C6: the ids bulk-tag inserts for and the ids it deletes are disjoint, and
\* when T = C it inserts no relation and deletes none
C6_BulkTagDeltasDisjoint ==
    last.op = "bulk_tag" =>
        LET b == last.bulk
        IN  /\ b.to_link \cap {l[1] : l \in b.deleted} = {}
            /\ b.selected_mod_ids = b.tag_mods =>
                    (b.to_link = {} /\ b.deleted = {})

\* a bulk-tag confirmed with the members the tag already had
C6_Witness ==
    /\ last.op = "bulk_tag"
    /\ last.bulk.tag_mods # {}
    /\ last.bulk.selected_mod_ids = last.bulk.tag_mods
    /\ links # {}

\* C8 as stated: once an operation has removed the last relation of a tag,
\* the tag is in no later listing of the tags table: when the operation
\* ends, no tag that lost its last relation during it is a tags row
C8_DroppedTagUnlisted ==
    [][scan'.pc = "idle" =>
        (scan.dropped \cup ({l[2] : l \in links} \ {l[2] : l \in links'}))
            \cap {t.id : t \in tags'} = {}]_vars

\* C9 as stated: at the commit point of a write that removes the last
\* relation of a tag no tags row without relations remains
C9_NoUnlinkedTagAtCommit ==
    [][({l[2] : l \in links} \ {l[2] : l \in links'} # {}) =>
        \A t \in tags' : \E l \in links' : l[2] = t.id]_vars

\* C10: every mod_hashes row references an existing sims_mod row and every
\* mod_tag_relations row an existing sims_mod row and an existing tags row
C10_ReferencesExist ==
    /\ \A r \in hashes : r.mod_id \in ModIds(CurrentDb)
    /\ \A l \in links : l[1] \in ModIds(CurrentDb) /\ l[2] \in TagIds(CurrentDb)

\* a mod has been removed while hashes and relations are recorded
C10_Witness ==
    /\ \E id \in 1..(nextModId - 1) : id \notin ModIds(CurrentDb)
    /\ hashes # {}
    /\ links # {}

\* C11: no two sims_mod rows have the same directory, and the directories
\* a pass still has to hand to add_mod are absent from the recorded ones
C11_DirectoriesUnique ==
    /\ \A m1 \in mods, m2 \in mods : m1.directory = m2.directory => m1 = m2
    /\ scan.new_mods \cap {m.directory : m \in mods} = {}

\* a pass about to add a directory next to a recorded mod
C11_Witness ==
    /\ mods # {}
    /\ scan.pc = "new"
    /\ scan.new_mods # {}

\* C12: when a statement of the add_mod transaction fails, no row it wrote
\* exists afterwards: the four tables are as they were before add_mod
C12_AddModAllOrNothing ==
    [][(last'.op = "add_mod" /\ ~last'.committed) =>
        (mods' = mods /\ hashes' = hashes /\ tags' = tags /\ links' = links)]_vars

\* an add_mod that failed on a fingerprint another mod records
C12_Witness ==
    /\ last.op = "add_mod"
    /\ ~last.committed
    /\ last.warned # {}

C14_CancelLeavesStore ==
    [][last'.op = "cancelled" => store' = store]_vars

\* a prompt was cancelled while mods with hashes and tags are recorded
C14_Witness ==
    /\ last.op = "cancelled"
    /\ hashes # {}
    /\ links # {}

\* C15 as stated: a cancelled prompt aborts only the action of its
\* directory; the pass goes on with the directories it has left
C15_CancelKeepsPassRunning ==
    [][(/\ last'.op = "cancelled"
        /\ Cardinality(scan.new_mods) + Cardinality(scan.missing_mods)
                + Cardinality(scan.mods_to_scan) > 1)
        => scan'.pc # "idle"]_vars

\* C17 as stated: a pass with fix = false and hash_update = false never
\* changes the store
C17_ReportOnlyPassChangesNothing ==
    [][(\/ scan.pc # "idle" /\ ~scan.fix /\ ~scan.hash_update
        \/ scan.pc = "idle" /\ scan'.pc # "idle"
                /\ ~scan'.fix /\ ~scan'.hash_update)
        => store' = store]_vars

----------------------------------------------------------------------------
(* Scan passes over one mod directory with up to two mod files, with both  *)
(* answers to every metadata prompt                                        *)

NextUpdate ==
    \/ ScanStartIn(OneDirInputs)
    \/ ScanNewIn(OneDirInputs)
    \/ ScanMissing
    \/ ScanCleanup
    \/ ScanExistingIn(OneDirInputs)

SpecUpdate == Init /\ [][NextUpdate]_vars

\* C19: once update_mod_from_scan has committed for a mod whose verification
\* failed, the mod's recorded path -> hash map is the scanned map of the
\* directory that was verified (missing paths gone, changed and new paths
\* with their scanned hashes, matching paths kept), and verifying the same
\* directory against it passes.
C19_UpdateStoresScannedMap ==
    (last.op = "update_mod" /\ last.committed) =>
        LET recorded == GetHashesForMod(CurrentDb, last.mod)
        IN  /\ recorded = GetFileHashes(last.dir)
            /\ VerificationPassed(VerifyFiles(recorded, last.dir))

\* an update committed for a directory with one mod file, replacing the map
C19_Witness ==
    /\ last.op = "update_mod"
    /\ last.committed
    /\ Cardinality(DOMAIN GetFileHashes(last.dir)) = 1
    /\ Cardinality({r \in hashes : r.mod_id = last.mod}) = 1

\* C20: every step of a pass started with hash_update leaves the rows of
\* sims_mod as they are (no mod added, none removed, name, directory,
\* source_url and version of every mod kept), takes no answer that cancels or
\* declines, and an update it makes changes nothing but the hashes of the
\* mod it updates.
C20_HashResyncKeepsMetadata ==
    [][(scan.pc # "idle" /\ scan.hash_update) =>
        /\ mods' = mods
        /\ last'.op \in {"none", "update_mod"}
        /\ last'.op = "update_mod" =>
            /\ last'.hash_update
            /\ tags' = tags /\ links' = links
            /\ {r \in hashes' : r.mod_id # last'.mod}
                    = {r \in hashes : r.mod_id # last'.mod}]_vars

\* a hash-resync update committed for a mod and changed its hashes
C20_Witness ==
    /\ last.op = "update_mod"
    /\ last.committed
    /\ last.hash_update
    /\ \E m \in mods : m.id = last.mod /\ m.source_url = "u2" /\ m.version = "v2"

\* C23: a confirmed removal of a missing mod deletes its sims_mod row, all
\* of its mod_hashes rows and all of its mod_tag_relations rows, and leaves
\* the rows, hashes and relations of every other mod as they were
C23_RemovalDeletesOnlyThatMod ==
    [][last'.op = "removed" =>
        /\ last'.mod \in {m.id : m \in mods}
        /\ mods' = {m \in mods : m.id # last'.mod}
        /\ hashes' = {r \in hashes : r.mod_id # last'.mod}
        /\ links' = {l \in links : l[1] # last'.mod}]_vars

\* a removal that took the last relation of a tag away while another mod
\* keeps a hash and a relation
C23_Witness ==
    /\ last.op = "removed"
    /\ scan.dropped # {}
    /\ \E m \in mods :
        /\ \E r \in hashes : r.mod_id = m.id
        /\ \E l \in links : l[1] = m.id

\* C27: a pass started with neither verify nor hash_update, with or without
\* fix, runs no verification, and each of its steps leaves the sims_mod row
\* and the mod_hashes rows of every recorded mod that is not missing as they
\* were
C27_NoVerifyKeepsExistingMods ==
    [][(scan.pc # "idle" /\ ~scan.verify /\ ~scan.hash_update) =>
        /\ scan.mods_to_scan = {}
        /\ \A m \in mods \ scan.missing_mods :
            /\ m \in mods'
            /\ {r \in hashes' : r.mod_id = m.id} = {r \in hashes : r.mod_id = m.id}]_vars

\* a fix pass without verify removed a missing mod while another recorded
\* mod, present on disk, keeps its hashes
C27_Witness ==
    /\ ~scan.verify /\ ~scan.hash_update /\ scan.fix
    /\ scan.pc # "idle"
    /\ last.op = "removed"
    /\ \E m \in mods \ scan.missing_mods :
        \E r \in hashes : r.mod_id = m.id

\* C28: tags --delete L with a tag labelled L removes that tags row and
\* every mod_tag_relations row to it and leaves every other tag and relation
\* and every sims_mod and mod_hashes row as they were; without a tag
\* labelled L it changes nothing and returns the NotFound error
C28_TagsDeleteRemovesTagAndLinks ==
    [][last'.op = "tags_delete" =>
        IF \E t \in tags : t.tag = last'.label
        THEN /\ last'.committed
             /\ \E t \in tags :
                /\ t.tag = last'.label /\ t.id = last'.tag_id
                /\ tags' = tags \ {t}
                /\ links' = {l \in links : l[2] # t.id}
             /\ mods' = mods /\ hashes' = hashes
        ELSE /\ ~last'.committed
             /\ store' = store]_vars

\* a tag was deleted and a mod that has hashes remains
C28_Witness ==
    /\ last.op = "tags_delete"
    /\ last.committed
    /\ \E m \in mods : \E r \in hashes : r.mod_id = m.id
    /\ tags # {}

\* C29 as stated: a non-interactive edit of a recorded mod with a tag list
\* and no other field, whatever the list (repeated labels, labels the mod
\* already has), commits, and afterwards the mod is linked to exactly the
\* tags labelled by the list and no tag is left without a link
C29_EditSetsTagsToList ==
    last.op = "edit_tags" =>
        /\ last.committed
        /\ {t.tag : t \in {x \in tags : <<last.mod, x.id>> \in links}}
                = TagsOfEntry(last.tag_list.v)
        /\ \A t \in tags : TagMods(CurrentDb, t.id) # {}

\* C38 as stated: a committed add_mod creates no tag with the empty label and
\* links the new mod to exactly the distinct non-empty labels of the tag
\* entry, one relation each
C38_AddModSkipsEmptyLabels ==
    [][(last'.op = "add_mod" /\ last'.committed) =>
            /\ \A t \in tags' \ tags : t.tag # ""
            /\ {t.tag : t \in {x \in tags' : <<last'.mod, x.id>> \in links'}}
                    = last'.tags \ {""}]_vars

\* C33: each directory's action commits on its own.  A step of a pass that
\* fails (a transaction of add_mod or update_mod_from_scan that returns an
\* error, a cancelled prompt) ends the pass and leaves the store exactly as
\* the step found it: what earlier steps of the pass committed stays, and
\* nothing of the failed action is written.
C33_FailedActionKeepsEarlierCommits ==
    [][(/\ scan.pc # "idle"
        /\ \/ last'.op = "cancelled"
           \/ last'.op \in {"add_mod", "update_mod"} /\ ~last'.committed) =>
            /\ store' = store
            /\ scan'.pc = "idle"
            /\ last'.earlier # 0 => last'.earlier \in ModIds(CurrentDb)']_vars

\* an add_mod that failed right after the add_mod of another directory of
\* the same pass had committed
C33_Witness ==
    /\ last.op = "add_mod"
    /\ ~last.committed
    /\ last.earlier # 0
    /\ last.earlier \in ModIds(CurrentDb)
    /\ scan.pc = "idle"

\* C30: a bulk-tag apply for tag t inserts and deletes only links whose tag
\* id is t: the links of every other tag are the same before and after the
\* step, so each other tag that has a link keeps its set of linked mods.
C30_BulkTagTouchesOnlyItsTag ==
    [][last'.op = "bulk_tag" =>
            LET t == last'.bulk.tag_id
            IN  /\ {l \in links' : l[2] # t} = {l \in links : l[2] # t}
                /\ \A o \in TagIds(CurrentDb) \ {t} :
                        TagMods(CurrentDb, o) # {} =>
                            /\ o \in TagIds(CurrentDb)'
                            /\ TagMods(CurrentDb, o)' = TagMods(CurrentDb, o)]_vars

\* a committed bulk-tag that unlinked a mod which still has a link to
\* another tag
C30_Witness ==
    /\ last.op = "bulk_tag"
    /\ last.committed
    /\ \E d \in last.bulk.deleted :
            \E l \in links : l[1] = d[1] /\ l[2] # last.bulk.tag_id

\* C22 as stated: every collision warning detect_collision prints while
\* add_mod or update_mod_from_scan saves the hashes of a mod names a
\* mod_hashes row of a different mod; rows of the mod being written (two of
\* its files with the same content) give no warning
C22_WarningOnlyForOtherMod ==
    last.op \in {"add_mod", "update_mod"} =>
        \A w \in last.warned : w[2] # last.mod

----------------------------------------------------------------------------
(* scan --fix --verify with every prompt confirmed, on a Mods root that    *)
(* changes only between passes                                             *)

\* the Mods root as it is on disk: its listing and the content of each mod
\* directory
ContentsOver(files) ==
    {[n \in DOMAIN m |-> [is_file |-> TRUE, data |-> m[n]]] :
        m \in PartialMaps(files, Hashes)}

\* d1 holds up to two mod files, every other directory up to one
FileSystems ==
    {[fn |-> "fs", root |-> root,
      contents |-> [d \in ModDirs |-> IF d = "d1" THEN c1 ELSE c2]] :
        root \in MainRoots, c1 \in ContentsOver(OneDirFiles),
        c2 \in ContentsOver(MainFiles)}

\* a pass reads what is on disk; the user confirms every prompt
FsInputs ==
    [roots |-> {pure.root},
     contents |-> [d \in ModDirs |-> {pure.contents[d]}],
     flags |-> {<<TRUE, TRUE, FALSE>>}, answers |-> {"yes"},
     source_urls |-> {"u1"}, versions |-> {"v1"},
     edit_source_urls |-> {}, edit_versions |-> {}]

InitConverge ==
    /\ Untouched
    /\ pure \in FileSystems

\* the user or the game changes the Mods root while no pass runs
FsChange ==
    /\ Idle
    /\ pure' \in FileSystems
    /\ last' = NoLast
    /\ UNCHANGED <<store, scan, menu>>

NextConverge ==
    \/ FsChange
    \/ ScanStartIn(FsInputs)
    \/ ScanNewIn(FsInputs)
    \/ ScanMissingIn(FsInputs)
    \/ ScanCleanup
    \/ ScanExistingIn(FsInputs)

SpecConverge == InitConverge /\ [][NextConverge]_vars

\* what scan(verify = true, ..) would report on the store and the disk as
\* they are: no new mod, no missing mod, every recorded mod verified
NextPassClean ==
    LET subdirs == ModDirSubdirs(pure.root)
        existing_subdirs == DOMAIN PathModMap(CurrentDb)
    IN  /\ NewModsOf(subdirs, existing_subdirs) = {}
        /\ MissingModsOf(subdirs, existing_subdirs) = {}
        /\ \A m \in mods :
            VerificationPassed(VerifyFiles(GetHashesForMod(CurrentDb, m.id),
                                           pure.contents[m.directory]))

\* the step ends a pass that was not aborted by a failed transaction or a
\* cancelled prompt
PassCompletes ==
    /\ scan.pc # "idle"
    /\ scan'.pc = "idle"
    /\ last'.op # "cancelled"
    /\ ~(last'.op \in {"add_mod", "update_mod"} /\ ~last'.committed)

\* C24: when a pass with fix and verify, every addition, removal and update
\* confirmed, runs to completion on a disk that does not change, the next
\* pass with verify has no new mod, no missing mod and every recorded mod
\* passes verification.
C24_CompletedFixPassConverges ==
    [][PassCompletes => NextPassClean']_vars

\* a pass that ended with a committed update, leaving two recorded mods
C24_Witness ==
    /\ pure.fn = "fs"
    /\ scan.pc = "idle"
    /\ last.op = "update_mod"
    /\ last.committed
    /\ Cardinality(mods) = 2
    /\ NextPassClean

----------------------------------------------------------------------------
(* The interactive menu on its own: edit -i, started again after it ends   *)

NextMenu ==
    \/ EditMenuEnter
    \/ EditMenuMainMenu
    \/ EditMenuTagList
    \/ EditMenuTagModList
    \/ EditMenuAllModList
    \/ EditMenuEditMod
    \/ EditMenuEditModName
    \/ EditMenuEditModSource
    \/ EditMenuEditModTags
    \/ EditMenuDeleteTag
    \/ EditMenuAddTag
    \/ EditMenuBulkTag
    \/ EditMenuScan
    \/ EditMenuScanReturn
    \/ ScanNewIn(MenuInputs)
    \/ ScanMissing
    \/ ScanCleanup
    \/ ScanExistingIn(MenuInputs)

SpecMenu == Init /\ [][NextMenu]_vars

\* the state with_interrupted_default or the None arm of the menu state names
MenuParent(state) ==
    CASE state = "MainMenu" -> {"Quit"}
      [] state \in {"TagList", "AllModList", "Scanning"} -> {"MainMenu"}
      [] state = "TagModList" -> {"TagList"}
      [] state = "EditMod" -> {"AllModList"}
      [] state \in {"EditModName", "EditModSource", "EditModTags"} -> {"EditMod"}
      [] state \in {"DeleteTag", "AddTag"} -> {"EditModTags"}
      [] state = "BulkTag" -> {"MainMenu", "BulkTag"}
      [] OTHER -> {}

\* C16: a menu iteration whose prompt was cancelled (Esc) or interrupted
\* (Ctrl-C), the prompts of a scan called from the menu included, leaves the
\* store as it was and moves the menu to the parent or previous state; it
\* never ends edit with an error.
C16_MenuInterruptIsSafe ==
    [][(\/ menu' # menu /\ menu'.answer \in Interrupts
        \/ menu' # menu /\ menu.state = "Scanning" /\ last.op = "cancelled")
        => /\ store' = store
           /\ menu'.state # "Err"
           /\ menu'.state \in MenuParent(menu.state)]_vars

\* C34 as stated: leaving EditMod through its back option or a cancelled
\* prompt goes to the list menu the mod was selected from: TagModList of the
\* tag when it was selected there, AllModList when it was selected there
C34_BackReturnsToOriginList ==
    [][(/\ menu.state = "EditMod"
        /\ menu'.state \notin {"EditMod", "EditModName", "EditModSource",
                               "EditModTags", "Panic"}) =>
            /\ menu'.state = menu.origin.state
            /\ menu'.tag = menu.origin.tag]_vars

\* C35 as stated: the loop ends only in Quit and cancelling the current
\* prompt over and over reaches Quit: every iteration whose prompt is
\* cancelled (Esc; for a scan called from the menu, a cancelled prompt of the
\* pass) moves the menu to a state strictly nearer to Quit, and never out of
\* the loop with an error.  (An iteration of BulkTag that answers the tag
\* prompt and cancels the multi-select stays in BulkTag; it is not counted,
\* its next prompt is the tag prompt.)  MenuRank is how far a state is from
\* Quit when every prompt is cancelled.
C35_CancellingReachesQuit ==
    [][LET MenuRank(state) ==
               CASE state = "Quit" -> 0
                 [] state = "MainMenu" -> 1
                 [] state \in {"TagList", "AllModList", "BulkTag", "ScanNoVerify",
                               "ScanVerify", "Scanning"} -> 2
                 [] state \in {"TagModList", "EditMod"} -> 3
                 [] state \in {"EditModName", "EditModSource", "EditModTags"} -> 4
                 [] state \in {"DeleteTag", "AddTag"} -> 5
                 [] OTHER -> 6
       IN  (/\ menu' # menu
            /\ \/ /\ menu'.answer = "Esc"
                  /\ ~(menu.state = "BulkTag" /\ menu'.state = "BulkTag")
               \/ menu.state = "Scanning" /\ last.op = "cancelled") =>
                MenuRank(menu'.state) < MenuRank(menu.state)]_vars

\* C36: whenever the menu is in a state that carries a mod id or a tag id,
\* a mod or tag with that id is in the store, and no lookup of the menu
\* (EditMod, TagModList, the tag of BulkTag) ever finds nothing.
C36_MenuIdsExist ==
    /\ menu.state # "Panic"
    /\ menu.state \in ModStates => menu.mod.id \in ModIds(CurrentDb)
    /\ menu.state \in {"TagModList", "DeleteTag"} =>
            menu.tag.id \in TagIds(CurrentDb)

\* EditMod of a mod selected from a tag's list, after that tag lost its last
\* relation and was cleaned up
C36_Witness ==
    /\ menu.state = "EditMod"
    /\ menu.origin.state = "TagModList"
    /\ menu.origin.tag.id \notin TagIds(CurrentDb)
    /\ menu.mod.id \in ModIds(CurrentDb)

----------------------------------------------------------------------------
(* verify_files on its own: every recorded map against every directory     *)

InitVerify ==
    /\ Untouched
    /\ \E recorded \in PartialMaps(EntryNames, Hashes),
          dir \in PartialMaps(EntryNames, DirEntry) :
        pure = [fn |-> "hashes", recorded |-> recorded, dir |-> dir]

\* verify_files(mod_path, hashes) followed by verification_passed()
VerifyCall ==
    /\ pure.fn = "hashes"
    /\ LET report == VerifyFiles(pure.recorded, pure.dir)
       IN  pure' = [fn |-> "verify_files",
                    recorded |-> pure.recorded,
                    dir |-> pure.dir,
                    report |-> report,
                    passed |-> VerificationPassed(report)]
    /\ UNCHANGED <<store, scan, last, menu>>

HashesAfterVerifyBad(hashes_arg, report) == UpdatedHashes(hashes_arg, report)

\* verify_files borrows hashes as &HashMap and only reads the directory:
\* the recorded map the caller holds after the call
HashesAfterVerify(hashes_arg, report) == hashes_arg

\* verify_files called a second time by the same caller, with the map the
\* first call left and the directory as it still is
VerifyAgain ==
    /\ pure.fn = "verify_files"
    /\ LET hashes_arg == HashesAfterVerify(pure.recorded, pure.report)
           again == VerifyFiles(hashes_arg, pure.dir)
       IN  pure' = [fn |-> "verify_files_again",
                    recorded |-> pure.recorded,
                    dir |-> pure.dir,
                    report |-> pure.report,
                    passed |-> pure.passed,
                    again |-> again,
                    passed_again |-> VerificationPassed(again)]
    /\ UNCHANGED <<store, scan, last, menu>>

NextVerify == VerifyCall \/ VerifyAgain

SpecVerify == InitVerify /\ [][NextVerify]_vars

\* C1: verify_files places every path of the union of the recorded and the
\* scanned key sets in exactly one of matching_files, changed_files,
\* missing_files and new_files, and no path outside that union in any of them
C1_BucketsPartitionUnion ==
    pure.fn = "verify_files" =>
        LET r == pure.report
            scanned == GetFileHashes(pure.dir)
            union == (DOMAIN pure.recorded) \cup (DOMAIN scanned)
            buckets == <<r.matching_files, DOMAIN r.changed_files,
                         r.missing_files, DOMAIN r.new_files>>
        IN  /\ \A p \in union :
                Cardinality({i \in 1..4 : p \in buckets[i]}) = 1
            /\ \A i \in 1..4 : buckets[i] \subseteq union

\* a report with a matching, a missing and a new path at once
C1_Witness ==
    /\ pure.fn = "verify_files"
    /\ pure.report.matching_files # {}
    /\ pure.report.missing_files # {}
    /\ DOMAIN pure.report.new_files # {}

\* C2: verification_passed() holds exactly when new_files, missing_files and
\* changed_files are all empty, and the report for an empty recorded map and
\* an empty scan passes
C2_PassedIffNoDifference ==
    pure.fn = "verify_files" =>
        LET r == pure.report
        IN  /\ pure.passed <=>
                    /\ DOMAIN r.new_files = {}
                    /\ r.missing_files = {}
                    /\ DOMAIN r.changed_files = {}
            /\ (pure.recorded = EmptyMap /\ GetFileHashes(pure.dir) = EmptyMap)
                    => pure.passed

\* the empty recorded map against a directory without mod files
C2_Witness ==
    /\ pure.fn = "verify_files"
    /\ pure.recorded = EmptyMap
    /\ GetFileHashes(pure.dir) = EmptyMap
    /\ pure.passed

\* C3: matching_files is the set of paths in both maps with equal hash,
\* changed_files maps the paths in both maps with differing hash to the
\* scanned hash, missing_files is the set of recorded-only paths and
\* new_files maps the scanned-only paths to their scanned hash
C3_BucketContents ==
    pure.fn = "verify_files" =>
        LET r == pure.report
            recorded == pure.recorded
            scanned == GetFileHashes(pure.dir)
            both == (DOMAIN recorded) \cap (DOMAIN scanned)
        IN  /\ r.matching_files = {p \in both : recorded[p] = scanned[p]}
            /\ r.changed_files =
                    [p \in {q \in both : recorded[q] # scanned[q]} |-> scanned[p]]
            /\ r.missing_files = (DOMAIN recorded) \ (DOMAIN scanned)
            /\ r.new_files =
                    [p \in (DOMAIN scanned) \ (DOMAIN recorded) |-> scanned[p]]

\* a report with a changed path and a new path
C3_Witness ==
    /\ pure.fn = "verify_files"
    /\ \E p \in DOMAIN pure.report.changed_files :
            pure.report.changed_files[p] # pure.recorded[p]
    /\ DOMAIN pure.report.new_files # {}

----------------------------------------------------------------------------
(* get_file_hashes on its own: every content of a mod directory            *)

InitHashes ==
    /\ Untouched
    /\ \E dir \in PartialMaps(EntryNames \cup MoreEntryNames, DirEntry) :
        pure = [fn |-> "dir", dir |-> dir]

GetFileHashesCall ==
    /\ pure.fn = "dir"
    /\ pure' = [fn |-> "get_file_hashes",
                dir |-> pure.dir,
                current_packages |-> CurrentPackages(pure.dir),
                hashes |-> GetFileHashes(pure.dir)]
    /\ UNCHANGED <<store, scan, last, menu>>

NextHashes == GetFileHashesCall

SpecHashes == InitHashes /\ [][NextHashes]_vars

\* C25 as stated: get_file_hashes returns exactly the entries that are
\* regular files, are not hidden (name not beginning with a dot) and have
\* the extension package or ts4script, and the keys of the hash map are the
\* returned names
C25_OnlyVisibleModFiles ==
    pure.fn = "get_file_hashes" =>
        /\ pure.current_packages =
                {n \in DOMAIN pure.dir :
                    /\ pure.dir[n].is_file
                    /\ Head(NameParts(n)) # "."
                    /\ ExtensionOf(n) \in {OsString("package"), OsString("ts4script")}}
        /\ DOMAIN pure.hashes = pure.current_packages

----------------------------------------------------------------------------
(* The fingerprint text: format!("{:#10x}", xxh3_64(..)) on its own        *)

U64Nibbles == 16        \* a u64 is sixteen hexadecimal digits
FormatWidth == 10       \* the width of {:#10x}

\* the u64 values taken: every value whose hexadecimal digits are 0 or b,
\* most significant digit first
NibbleChoices == {0, 11}
U64Values == [1..U64Nibbles -> NibbleChoices]

LowerHex == <<"0", "1", "2", "3", "4", "5", "6", "7", "8", "9",
              "a", "b", "c", "d", "e", "f">>

\* the digits of {:x}: no leading zero, one digit for the value zero
HexDigits(value) ==
    LET significant == {i \in DOMAIN value : value[i] # 0}
        first == IF significant = {} THEN Len(value)
                 ELSE CHOOSE i \in significant : \A j \in significant : i <= j
    IN  [k \in 1..(Len(value) - first + 1) |-> LowerHex[value[first + k - 1] + 1]]

\* {:#10x}: the alternate form puts 0x before the digits; the width is a
\* minimum, filled on the left with spaces since the 0 flag is not given
FormatHash(value) ==
    LET text == <<"0", "x">> \o HexDigits(value)
        fill == IF Len(text) < FormatWidth THEN FormatWidth - Len(text) ELSE 0
    IN  [k \in 1..fill |-> " "] \o text

InitFormat ==
    /\ Untouched
    /\ \E value \in U64Values : pure = [fn |-> "xxh3_64", value |-> value]

FormatCall ==
    /\ pure.fn = "xxh3_64"
    /\ pure' = [fn |-> "format", value |-> pure.value,
                text |-> FormatHash(pure.value)]
    /\ UNCHANGED <<store, scan, last, menu>>

NextFormat == FormatCall

SpecFormat == InitFormat /\ [][NextFormat]_vars

\* C26 as stated: the text of every 64-bit value has one and the same
\* length, the one of the text of the largest value taken, and is made of
\* the 0x prefix and hexadecimal digits only, short values being filled with
\* zeros
C26_FixedWidthZeroPadded ==
    pure.fn = "format" =>
        /\ Len(pure.text) = Len(FormatHash([i \in 1..U64Nibbles |-> 11]))
        /\ \A i \in DOMAIN pure.text : pure.text[i] # " "

----------------------------------------------------------------------------
(* The classification of scan on its own: every listing of the mods root   *)
(* against every set of recorded directories                               *)

InitClassify ==
    /\ Untouched
    /\ \E root \in Roots, existing_subdirs \in SUBSET ModDirs :
        pure = [fn |-> "listing", root |-> root,
                existing_subdirs |-> existing_subdirs]

\* scan, lines 240-259
Classify ==
    /\ pure.fn = "listing"
    /\ LET subdirs == ModDirSubdirs(pure.root)
       IN  pure' = [fn |-> "scan",
                    root |-> pure.root,
                    existing_subdirs |-> pure.existing_subdirs,
                    new_mods |-> NewModsOf(subdirs, pure.existing_subdirs),
                    missing_mods |-> MissingModsOf(subdirs, pure.existing_subdirs),
                    mods_to_scan |-> ModsToScanOf(subdirs, pure.existing_subdirs)]
    /\ UNCHANGED <<store, scan, last, menu>>

NextClassify == Classify

SpecClassify == InitClassify /\ [][NextClassify]_vars

\* C7 as stated: every on-disk subdirectory of the mods root and every
\* recorded mod directory is in exactly one of new (on disk only), missing
\* (recorded only) and existing (in both)
C7_EverySubdirectoryClassified ==
    pure.fn = "scan" =>
        LET on_disk == {n \in DOMAIN pure.root : pure.root[n].is_dir}
            classes == <<pure.new_mods, pure.missing_mods, pure.mods_to_scan>>
        IN  \A d \in on_disk \cup pure.existing_subdirs :
                /\ Cardinality({i \in 1..3 : d \in classes[i]}) = 1
                /\ d \in pure.new_mods <=>
                        (d \in on_disk /\ d \notin pure.existing_subdirs)
                /\ d \in pure.missing_mods <=>
                        (d \notin on_disk /\ d \in pure.existing_subdirs)
                /\ d \in pure.mods_to_scan <=>
                        (d \in on_disk /\ d \in pure.existing_subdirs)

\* C7: every on-disk subdirectory of the mods root other than mod_data and
\* every recorded mod directory is in exactly one of new (on disk only),
\* missing (recorded only) and existing (in both); mod_data is in none
C7_SubdirectoriesButModDataClassified ==
    pure.fn = "scan" =>
        LET on_disk == {n \in DOMAIN pure.root : pure.root[n].is_dir} \ {"mod_data"}
            classes == <<pure.new_mods, pure.missing_mods, pure.mods_to_scan>>
        IN  /\ \A d \in on_disk \cup pure.existing_subdirs :
                /\ Cardinality({i \in 1..3 : d \in classes[i]}) = 1
                /\ d \in pure.new_mods <=>
                        (d \in on_disk /\ d \notin pure.existing_subdirs)
                /\ d \in pure.missing_mods <=>
                        (d \notin on_disk /\ d \in pure.existing_subdirs)
                /\ d \in pure.mods_to_scan <=>
                        (d \in on_disk /\ d \in pure.existing_subdirs)
            /\ \A i \in 1..3 : "mod_data" \notin classes[i]

\* a pass with a new, a missing and an existing directory next to mod_data
C7_Witness ==
    /\ pure.fn = "scan"
    /\ "mod_data" \in DOMAIN pure.root
    /\ pure.root["mod_data"].is_dir
    /\ pure.new_mods # {}
    /\ pure.missing_mods # {}
    /\ pure.mods_to_scan # {}

----------------------------------------------------------------------------
(* The tag helpers of commands/util.rs on their own: get_or_create_tag_id, *)
(* cleanup_tags and TagAutoComplete::create_with_exclusions, called in any *)
(* order on a store with two mods while relations come and go.             *)

MaxTagRows == 3                  \* tag ids the store hands out here
TagLabels == {"a", "b"}          \* labels the helpers are called with

\* the labels of a mod's tags: mod_model.find_related(Tag) mapped to m.tag
ExistingTags(db, mod_id) ==
    {t.tag : t \in {x \in db.tags : <<mod_id, x.id>> \in db.links}}

\* create_with_exclusions: the keys of the trie built from
\* Tag::find().filter(fold(Condition::all(), |c, e| c.add(Tag.eq(e))))
CreateWithExclusions(db, exclusions) ==
    {t.tag : t \in {x \in db.tags : CondAllEq(exclusions, x.tag)}}

\* get_suggestions: the keys of tag_trie.subtrie(input); labels here are at
\* most one character long, so a key lies under a non-empty input exactly
\* when it equals it, and every key lies under the empty input
GetSuggestions(tag_trie, input) ==
    IF input = "" THEN tag_trie ELSE {k \in tag_trie : k = input}

\* the store after two add_mod transactions whose tags were removed again
InitTags ==
    /\ LET empty == [mods |-> {}, hashes |-> {}, tags |-> {}, links |-> {},
                     nextModId |-> 1, nextTagId |-> 1]
           m1 == InsertMod(empty, [name |-> "n1", directory |-> "d1",
                                   source_url |-> "u1", version |-> "v1"]).db
           m2 == InsertMod(m1, [name |-> "n2", directory |-> "d2",
                                source_url |-> "u1", version |-> "v1"]).db
       IN  mods = m2.mods /\ nextModId = m2.nextModId
    /\ hashes = {}
    /\ tags = {}
    /\ links = {}
    /\ nextTagId = 1
    /\ scan = IdleScan
    /\ last = NoLast
    /\ menu = NoMenu
    /\ pure = NoPure

\* get_or_create_tag_id(db, tag); again says that the call before it was
\* get_or_create_tag_id with the same label
GetOrCreateTagIdCall ==
    \E tag \in TagLabels :
        LET g == GetOrCreateTagId(CurrentDb, tag)
        IN  /\ g.db.nextTagId <= MaxTagRows + 1
            /\ SetDb(g.db)
            /\ pure' = [fn |-> "get_or_create_tag_id", tag |-> tag, id |-> g.id,
                        again |-> pure.fn = "get_or_create_tag_id" /\ pure.tag = tag]
            /\ UNCHANGED <<scan, last, menu>>

\* ModTagRelation::insert for a mod and a tag of the store
InsertRelationCall ==
    /\ \E mod_id \in ModIds(CurrentDb), tag_id \in TagIds(CurrentDb) :
        LET r == InsertLink(CurrentDb, mod_id, tag_id)
        IN  r.ok /\ SetDb(r.db)
    /\ pure' = [fn |-> "insert_relation"]
    /\ UNCHANGED <<scan, last, menu>>

\* ModTagRelation::delete of one relation
DeleteRelationCall ==
    /\ \E l \in links : SetDb([CurrentDb EXCEPT !.links = @ \ {l}])
    /\ pure' = [fn |-> "delete_relation"]
    /\ UNCHANGED <<scan, last, menu>>

\* cleanup_tags(db); pure keeps the tags and relations it was called on
CleanupTagsCall ==
    /\ SetDb(CleanupTags(CurrentDb))
    /\ pure' = [fn |-> "cleanup_tags", tags |-> tags, links |-> links]
    /\ UNCHANGED <<scan, last, menu>>

\* EditMenuAction::AddTag up to the prompt: existing_tags of the mod, the
\* autocompleter built from them and what it suggests for an input
CreateWithExclusionsCall ==
    /\ \E mod_id \in ModIds(CurrentDb), input \in {""} \cup TagLabels :
        LET existing_tags == ExistingTags(CurrentDb, mod_id)
            tag_trie == CreateWithExclusions(CurrentDb, existing_tags)
        IN  pure' = [fn |-> "create_with_exclusions", mod_id |-> mod_id,
                     existing_tags |-> existing_tags, input |-> input,
                     suggestions |-> GetSuggestions(tag_trie, input)]
    /\ UNCHANGED <<store, scan, last, menu>>

NextTags ==
    \/ GetOrCreateTagIdCall
    \/ InsertRelationCall
    \/ DeleteRelationCall
    \/ CleanupTagsCall
    \/ CreateWithExclusionsCall

SpecTags == InitTags /\ [][NextTags]_vars

\* C31: cleanup_tags deletes exactly the tags without a relation: the tags
\* left are the tags that had a relation when it was called (all of them
\* when every tag has one, none when there is no relation at all), and no
\* relation is touched.
C31_CleanupDeletesExactlyUnlinkedTags ==
    pure.fn = "cleanup_tags" =>
        /\ tags = {t \in pure.tags : \E l \in pure.links : l[2] = t.id}
        /\ links = pure.links

\* cleanup_tags called on a store with tags and no relation at all
C31_Witness ==
    /\ pure.fn = "cleanup_tags"
    /\ Cardinality(pure.tags) = 2
    /\ pure.links = {}
    /\ tags = {}

\* C32: get_or_create_tag_id returns the id of the tag that has the label
\* when there is one and leaves the tags alone, inserts one tag with a fresh
\* id otherwise; no two tags ever share a label, and a call that repeats the
\* label of the call before it returns the same id.
C32_GetOrCreateKeepsLabelsUnique ==
    [][pure'.fn = "get_or_create_tag_id" =>
            LET found == {t \in tags : t.tag = pure'.tag}
            IN  /\ found # {} => tags' = tags /\ found = {[id |-> pure'.id, tag |-> pure'.tag]}
                /\ found = {} =>
                        /\ pure'.id \notin TagIds(CurrentDb)
                        /\ tags' = tags \cup {[id |-> pure'.id, tag |-> pure'.tag]}
                /\ \A t1, t2 \in tags' : t1.tag = t2.tag => t1 = t2
                /\ pure'.again => pure'.id = pure.id]_vars

\* a second call with the label of the call before it, while another tag
\* is in the store
C32_Witness ==
    /\ pure.fn = "get_or_create_tag_id"
    /\ pure.again
    /\ Cardinality(tags) = 2

\* C37 as stated: the autocompleter of AddTag suggests only labels of tags
\* of the store that the mod does not have yet
C37_SuggestsOnlyTagsTheModLacks ==
    pure.fn = "create_with_exclusions" =>
        /\ pure.suggestions \subseteq {t.tag : t \in tags}
        /\ pure.suggestions \cap pure.existing_tags = {}

====
